---- MODULE Spec2Model ----
(***************************************************************************)
(* Model of src/src/opportunity_comparison_statistics.py: the report       *)
(* pipeline create_opportunity_comparison_report, which runs the summary   *)
(* aggregator (_generate_comparison_statistics), the progress series       *)
(* builder (_generate_progress_data) and the renderer                      *)
(* (_generate_html_report) and then writes the report file.                *)
(*                                                                         *)
(* Calendar dates are integers (day ordinals); a datetime is a record of a *)
(* date and a time of day, so that .date() is a real truncation.  Python   *)
(* dicts are functions over their key set; dicts that are only iterated    *)
(* (coverage_data_objects, delivery_units, service_areas) are sequences in *)
(* insertion order, the position being the key.  Floats that come from a   *)
(* division of two counts are exact fractions [num, den].                  *)
(***************************************************************************)
EXTENDS Integers, Sequences, FiniteSets, TLC

(***************************************************************************)
(* Bounds of the model.                                                    *)
(***************************************************************************)
MaxDay == 4
MaxDUs == 2
MaxPoints == 2
MaxSP == 3
MaxBuildings == 2
MaxProjects == 2

Days == 0..MaxDay
TimesOfDay == {"am", "pm"}
Lookbacks == {1, 2, 3}
Ratios == {1, 10}
ExampleSPs == {10, 11}

(***************************************************************************)
(* Values of the data model (src/models is not part of the sources; only   *)
(* the attributes this module reads are modelled).                         *)
(***************************************************************************)
\* None stands for every value that is no datetime instance (None, a string);
\* NaT is pandas' missing timestamp.
None == [kind |-> "None", date |-> 0, time |-> "am"]
NaT == [kind |-> "NaT", date |-> 0, time |-> "am"]
Datetime(d, t) == [kind |-> "datetime", date |-> d, time |-> t]

\* isinstance(v, datetime): pandas' NaT is an instance of datetime.
IsInstanceDatetime(v) == v.kind \in {"datetime", "NaT"}
\* v.date(): drops the time of day; NaT.date() is NaT again.
DateOf(v) == [kind |-> IF v.kind = "NaT" THEN "NaT" ELSE "date", date |-> v.date]
\* pd.isna(x)
IsNa(x) == x.kind = "NaT"
\* truth value of point.visit_date
Truthy(v) == v.kind # "None"
\* pd.to_datetime(v).date()
ToDatetimeDate(v) == DateOf(v)

DeliveryUnit(st, cd, sp, b, w) ==
    [status |-> st, computed_du_completion_date |-> cd, service_points |-> sp,
     buildings |-> b, flw_commcare_id |-> w]
ServicePoint(v) == [visit_date |-> v]
ServiceArea(s, c) == [is_started |-> s, is_completed |-> c]

\* The Field Worker mapping: flw_commcare_id -> FLW object (its id).
\* W3 is a worker that delivery units may name but the mapping does not hold.
FLWS == ("W1" :> [id |-> "flw-1"]) @@ ("W2" :> [id |-> "flw-2"])

CoverageData(name, dus, pts, flws, sas, active, missing) ==
    [opportunity_name |-> name, project_space |-> "space",
     delivery_units |-> dus, service_points |-> pts, flws |-> flws,
     service_areas |-> sas, active_flws_last7days |-> active,
     average_visits_data |-> <<1, 2>>, missing |-> missing]

\* getattr(coverage_data, 'opportunity_name', project_key): the attribute may
\* be absent, and then the project key stands in.
NoAttr == "<no attribute>"
ProjectKeys == <<"p1", "p2", "p3", "p4">>
ProjectKey(i) == ProjectKeys[i]
\* Mutant: the series are keyed by project key.
OpportunityNameIsProjectKey(cd, project_key) == project_key

OpportunityName(cd, project_key) ==
    IF cd.opportunity_name = NoAttr THEN project_key ELSE cd.opportunity_name

(***************************************************************************)
(* Helpers for sequences and dict-like functions.                          *)
(***************************************************************************)
EmptyMap == <<>>
Get(m, k, default) == IF k \in DOMAIN m THEN m[k] ELSE default
Put(m, k, v) == (k :> v) @@ m

\* min(d.keys()), max(d.keys())
SetMin(S) == CHOOSE x \in S : \A y \in S : x <= y
SetMax(S) == CHOOSE x \in S : \A y \in S : x >= y

\* A collection attribute that is None or empty is falsy.
IsMissing(cd, attr) == attr \in cd.missing
LenOrZero(cd, attr, coll) == IF IsMissing(cd, attr) THEN 0 ELSE Len(coll)

\* Exact fractions for the results of true division.
Frac(n, d) == [num |-> n, den |-> d]
FracAdd(a, b) == Frac(a.num * b.den + b.num * a.den, a.den * b.den)
FracDivInt(a, n) == Frac(a.num, a.den * n)
\* a > r for a fraction a with positive denominator and an integer r
FracGtInt(a, r) == a.num > r * a.den

NoError == "none"

(***************************************************************************)
(* _generate_comparison_statistics                                         *)
(***************************************************************************)
\* Mutant: the aggregator counts a completed unit only if it is dated.
IsCompletedAndDatedDU(du) ==
    du.status = "completed" /\ du.computed_du_completion_date.kind = "datetime"

\* Line 88: du.status == 'completed'
IsCompletedDU(du) == du.status = "completed"
IsStartedSA(sa) == sa.is_started
IsCompletedSA(sa) == sa.is_completed

\* Mutant: a project without delivery units counts as fully covered.
CoveragePercentageOfNothingIsFull(completed_dus_count, delivery_units_count) ==
    IF delivery_units_count > 0
    THEN Frac(completed_dus_count * 100, delivery_units_count)
    ELSE Frac(100, 1)

\* Lines 98-101
CoveragePercentage(completed_dus_count, delivery_units_count) ==
    IF delivery_units_count > 0
    THEN Frac(completed_dus_count * 100, delivery_units_count)
    ELSE Frac(0, 1)

\* Lines 104-107
PctActiveFlw(active_flw_last7days, total_flws) ==
    IF total_flws > 0
    THEN Frac(active_flw_last7days * 100, total_flws)
    ELSE Frac(0, 1)

CompletedDusCount(cd) ==
    IF LenOrZero(cd, "delivery_units", cd.delivery_units) > 0
    THEN Cardinality({i \in DOMAIN cd.delivery_units : IsCompletedDU(cd.delivery_units[i])})
    ELSE 0

ProjectStats(project_key, cd) ==
    LET delivery_units_count == LenOrZero(cd, "delivery_units", cd.delivery_units)
        completed_dus_count == CompletedDusCount(cd)
        total_flws == IF IsMissing(cd, "flws") THEN 0 ELSE Cardinality(DOMAIN cd.flws)
        has_sas == LenOrZero(cd, "service_areas", cd.service_areas) > 0
    IN  [opportunity_name |-> OpportunityName(cd, project_key),
         project_space |-> cd.project_space,
         delivery_units_count |-> delivery_units_count,
         service_points_count |-> LenOrZero(cd, "service_points", cd.service_points),
         visits_per_day |-> cd.average_visits_data[2],
         completed_dus_count |-> completed_dus_count,
         dus_per_day |-> cd.average_visits_data[1],
         total_flws |-> total_flws,
         total_service_areas |-> LenOrZero(cd, "service_areas", cd.service_areas),
         started_sas_count |->
             IF has_sas
             THEN Cardinality({i \in DOMAIN cd.service_areas :
                                  IsStartedSA(cd.service_areas[i])})
             ELSE 0,
         completed_sas_count |->
             IF has_sas
             THEN Cardinality({i \in DOMAIN cd.service_areas :
                                  IsCompletedSA(cd.service_areas[i])})
             ELSE 0,
         active_flw_last7days |-> cd.active_flws_last7days,
         coverage_percentage |->
             CoveragePercentage(completed_dus_count, delivery_units_count),
         pct_active_flw_last7days |->
             PctActiveFlw(cd.active_flws_last7days, total_flws)]

\* Mutant: the sum keeps the last project only.
SumFieldKeepsLast(projects, n, field) ==
    IF n = 0 THEN 0 ELSE projects[ProjectKey(n)][field]

\* sum(p[field] for p in stats['projects'].values()), in dict order
RECURSIVE SumField(_, _, _)
SumField(projects, n, field) ==
    IF n = 0 THEN 0
    ELSE SumField(projects, n - 1, field) + projects[ProjectKey(n)][field]

RECURSIVE SumCoverage(_, _)
SumCoverage(projects, n) ==
    IF n = 0 THEN Frac(0, 1)
    ELSE FracAdd(SumCoverage(projects, n - 1), projects[ProjectKey(n)].coverage_percentage)

\* Mutant: average_coverage is total completed DUs over total DUs.
SummaryComparisonsWeighted(projects, n) ==
    [total_delivery_units |-> SumField(projects, n, "delivery_units_count"),
     total_service_points |-> SumField(projects, n, "service_points_count"),
     total_completed_dus |-> SumField(projects, n, "completed_dus_count"),
     total_service_areas |-> SumField(projects, n, "total_service_areas"),
     total_started_sas |-> SumField(projects, n, "started_sas_count"),
     total_completed_sas |-> SumField(projects, n, "completed_sas_count"),
     average_coverage |->
         CoveragePercentage(SumField(projects, n, "completed_dus_count"),
                            SumField(projects, n, "delivery_units_count")),
     total_flws |-> SumField(projects, n, "total_flws")]

\* Lines 115-124; line 122 is sum(coverage_percentage) / len(projects) if
\* there is any project, else 0.
SummaryComparisons(projects, n) ==
    [total_delivery_units |-> SumField(projects, n, "delivery_units_count"),
     total_service_points |-> SumField(projects, n, "service_points_count"),
     total_completed_dus |-> SumField(projects, n, "completed_dus_count"),
     total_service_areas |-> SumField(projects, n, "total_service_areas"),
     total_started_sas |-> SumField(projects, n, "started_sas_count"),
     total_completed_sas |-> SumField(projects, n, "completed_sas_count"),
     average_coverage |->
         IF n > 0 THEN FracDivInt(SumCoverage(projects, n), n) ELSE Frac(0, 1),
     total_flws |-> SumField(projects, n, "total_flws")]

GenerateComparisonStatistics(cdo) ==
    LET projects == [k \in {ProjectKey(i) : i \in DOMAIN cdo} |->
                        LET i == CHOOSE j \in DOMAIN cdo : ProjectKey(j) = k
                        IN  ProjectStats(k, cdo[i])]
    IN  [project_count |-> Len(cdo),
         projects |-> projects,
         summary_comparisons |-> SummaryComparisons(projects, Cardinality(DOMAIN projects))]

(***************************************************************************)
(* _generate_progress_data: bucketing of one project                       *)
(***************************************************************************)
\* Lines 153-159: service-point visits by calendar date.
RECURSIVE ServiceDeliveryByDay(_, _, _)
ServiceDeliveryByDay(points, i, by_day) ==
    IF i > Len(points) THEN by_day
    ELSE LET point == points[i]
         IN  IF Truthy(point.visit_date)
             THEN LET visit_date == ToDatetimeDate(point.visit_date).date
                  IN  ServiceDeliveryByDay(points, i + 1,
                          Put(by_day, visit_date, Get(by_day, visit_date, 0) + 1))
             ELSE ServiceDeliveryByDay(points, i + 1, by_day)

\* Mutant: >= in place of >.
IsClumpedInclusive(du, clumping_ratio) ==
    Frac(du.service_points, du.buildings).num
        >= clumping_ratio * Frac(du.service_points, du.buildings).den

\* Lines 181-184: clumping_value = len(du.service_points) / du.buildings,
\* compared with the threshold by a strict >.  The caller has checked that
\* du.buildings is not 0.
IsClumped(du, clumping_ratio) ==
    LET clumping_value == Frac(du.service_points, du.buildings)
    IN  FracGtInt(clumping_value, clumping_ratio)

\* Mutant: the check of pd.isna(completion_date) is missing.
QualifiesWithoutNaTCheck(du) ==
    /\ du.status = "completed"
    /\ IsInstanceDatetime(du.computed_du_completion_date)

\* Lines 167-173: does the unit reach the bucketing code?
Qualifies(du) ==
    /\ du.status = "completed"
    /\ IsInstanceDatetime(du.computed_du_completion_date)
    /\ ~IsNa(DateOf(du.computed_du_completion_date))

\* Lines 166-193: one iteration of the loop over delivery_units.values(),
\* for the unit du with key i.  The result holds the two bucket maps and the
\* exception the iteration raised, if any.  A clumped bucket is the list of
\* the units (their keys) in insertion order.
BucketDeliveryUnit(du, i, ratio, completion_by_day, clumped_by_day) ==
    IF ~Qualifies(du)
    THEN [du_completion_by_day |-> completion_by_day,
          clumped_dus_by_day |-> clumped_by_day, error |-> NoError]
    ELSE LET completion_date == DateOf(du.computed_du_completion_date).date
             completions == Put(completion_by_day, completion_date,
                                Get(completion_by_day, completion_date, 0) + 1)
         IN  IF du.buildings = 0
             THEN [du_completion_by_day |-> completions,
                   clumped_dus_by_day |-> clumped_by_day,
                   error |-> "ZeroDivisionError"]
             ELSE IF IsClumped(du, ratio)
             THEN [du_completion_by_day |-> completions,
                   clumped_dus_by_day |->
                       Put(clumped_by_day, completion_date,
                           Append(Get(clumped_by_day, completion_date, <<>>), i)),
                   error |-> NoError]
             ELSE [du_completion_by_day |-> completions,
                   clumped_dus_by_day |-> clumped_by_day, error |-> NoError]

(***************************************************************************)
(* _generate_progress_data: the dense series of one project                *)
(***************************************************************************)
\* Mutant: the walk stops one day short of the last bucketed date.
WalkStopsEarly(current_date, last_date) == current_date < last_date

\* Lines 205, 231, 257: while current_date <= last_date
WalkContinues(current_date, last_date) == current_date <= last_date

\* Mutant: the running total is overwritten, not added to.
AccumulateOverwrites(cumulative, daily_count) == daily_count

\* Lines 208, 234, 261: cumulative += daily_count
Accumulate(cumulative, daily_count) == cumulative + daily_count

\* Lines 216-217, 242-243, 286-287: the day after current_date
NextDay(current_date) == current_date + 1

\* Mutant: the window reaches one day further back.
LookbackStartsADayEarlier(current_date, lookback) == current_date - lookback

\* Line 264: lookback_start_date
LookbackStartDate(current_date, lookback) == current_date - (lookback - 1)

\* Lines 205-217 and 231-243: walk every calendar day up to the last one.
RECURSIVE DenseSeries(_, _, _, _, _, _)
DenseSeries(current_date, last_date, first_date, by_day, cumulative, progress) ==
    IF WalkContinues(current_date, last_date)
    THEN LET day_number == current_date - first_date
             daily_count == Get(by_day, current_date, 0)
             cumulative_count == Accumulate(cumulative, daily_count)
         IN  DenseSeries(NextDay(current_date), last_date, first_date, by_day,
                         cumulative_count,
                         Append(progress, [day |-> day_number,
                                           daily_count |-> daily_count,
                                           cumulative_count |-> cumulative_count]))
    ELSE progress

\* Lines 271-274: the workers of one day's clumped units.
RECURSIVE AddFlws(_, _, _, _, _)
AddFlws(clumped, j, cd, unique_flws, error) ==
    IF j > Len(clumped) \/ error # NoError
    THEN [unique_flws |-> unique_flws, error |-> error]
    ELSE LET clumped_du == cd.delivery_units[clumped[j]]
         IN  IF IsMissing(cd, "flws")
             THEN [unique_flws |-> unique_flws, error |-> "TypeError"]
             ELSE IF clumped_du.flw_commcare_id \notin DOMAIN cd.flws
             THEN [unique_flws |-> unique_flws, error |-> "KeyError"]
             ELSE AddFlws(clumped, j + 1, cd,
                          unique_flws \cup {cd.flws[clumped_du.flw_commcare_id].id}, error)

\* Lines 264-275: the trailing window [current_date - (lookback_days-1), current_date].
RECURSIVE LookbackFlws(_, _, _, _, _)
LookbackFlws(check_date, current_date, by_day, cd, acc) ==
    IF check_date <= current_date /\ acc.error = NoError
    THEN LookbackFlws(NextDay(check_date), current_date, by_day, cd,
             IF check_date \in DOMAIN by_day
             THEN AddFlws(by_day[check_date], 1, cd, acc.unique_flws, NoError)
             ELSE acc)
    ELSE acc

\* Lines 256-287: the clumped series, anchored on first_completion_date.
RECURSIVE ClumpedSeries(_, _, _, _, _, _, _, _)
ClumpedSeries(current_date, last_date, first_date, by_day, cd, lookback, cumulative, progress) ==
    IF WalkContinues(current_date, last_date)
    THEN LET day_number == current_date - first_date
             daily_clumped_dus == Get(by_day, current_date, <<>>)
             daily_count == Len(daily_clumped_dus)
             cumulative_count == Accumulate(cumulative, daily_count)
             lookback_start_date == LookbackStartDate(current_date, lookback)
             window == LookbackFlws(lookback_start_date, current_date, by_day,
                                    cd, [unique_flws |-> {}, error |-> NoError])
         IN  IF window.error # NoError
             THEN [progress |-> progress, error |-> window.error]
             ELSE ClumpedSeries(NextDay(current_date), last_date, first_date,
                      by_day, cd, lookback, cumulative_count,
                      Append(progress,
                             [day |-> day_number,
                              daily_count |-> daily_count,
                              cumulative_count |-> cumulative_count,
                              clumped_dus |-> daily_clumped_dus,
                              unique_flws_in_lookback |-> window.unique_flws,
                              unique_flws_count_in_lookback |->
                                  Cardinality(window.unique_flws)]))
    ELSE [progress |-> progress, error |-> NoError]

(***************************************************************************)
(* The inputs of a run: the project map and the two tunables.  A few      *)
(* families of inputs, each taking one dimension of the data through a     *)
(* full product while the others stay at representative values.            *)
(***************************************************************************)
Project(name, dus, pts) == CoverageData(name, dus, pts, FLWS, <<>>, 1, {})

\* Window family: clumped units (2 points on 1 building, threshold 1) of two
\* workers on any day, and one unit that is completed but not clumped.
WindowDUs ==
    {DeliveryUnit("completed", Datetime(d, "am"), 2, 1, w) : d \in Days, w \in {"W1", "W2"}}
    \cup {DeliveryUnit("completed", Datetime(0, "pm"), 1, 1, "W1")}
WindowRun(cdo, ratio, lb) ==
    \E k \in 0..MaxDUs : \E dus \in [1..k -> WindowDUs] :
        /\ cdo = <<Project("A", dus, <<>>)>>
        /\ ratio = 1
        /\ lb \in Lookbacks

\* The worked example of the trailing window: lookback_days = 3, clumped
\* completions of W1 on day 0 and of W2 on day 2, and one more on day 4.
ExampleRun(cdo, ratio, lb) ==
    \E w \in {"W1", "W2"} :
        /\ cdo = <<Project("A", <<DeliveryUnit("completed", Datetime(0, "am"), 2, 1, "W1"),
                                  DeliveryUnit("completed", Datetime(2, "pm"), 2, 1, "W2"),
                                  DeliveryUnit("completed", Datetime(4, "am"), 2, 1, w)>>,
                            <<>>)>>
        /\ ratio = 1
        /\ lb = 3

\* Clumping family: one unit from the product of every attribute the
\* bucketing reads, alone or next to one other unit.  The units that must be
\* skipped carry attributes that would show if they were read: no building,
\* a worker the mapping does not hold.
SPCounts == (0..MaxSP) \cup ExampleSPs
SkippedDUs ==
    {DeliveryUnit("unvisited", Datetime(0, "am"), MaxSP, 0, "W3"),
     DeliveryUnit("completed", None, MaxSP, 0, "W3"),
     DeliveryUnit("completed", NaT, MaxSP, 0, "W3")}
ProbeDUs ==
    SkippedDUs \cup
    {DeliveryUnit("completed", Datetime(d, t), sp, b, w) :
        d \in {0, 1}, t \in TimesOfDay, sp \in SPCounts, b \in 0..MaxBuildings,
        w \in {"W2", "W3"}}
ContextDUs ==
    {DeliveryUnit("completed", Datetime(0, "am"), 11, 1, "W1"),
     DeliveryUnit("completed", Datetime(0, "am"), 1, 1, "W1")}
ClumpSeqs ==
    {<<p>> : p \in ProbeDUs}
    \cup {<<c, p>> : c \in ContextDUs, p \in ProbeDUs}
    \cup {<<p, c>> : c \in ContextDUs, p \in ProbeDUs}
ClumpRun(cdo, ratio, lb) ==
    \E dus \in ClumpSeqs :
        /\ cdo = <<Project("A", dus, <<>>)>>
        /\ ratio \in Ratios
        /\ lb = 2

\* Service family: visits on any day and time of day, or without a date.
VisitDates == {None} \cup {Datetime(d, t) : d \in Days, t \in TimesOfDay}
ServiceRun(cdo, ratio, lb) ==
    \E k \in 0..MaxPoints : \E pts \in [1..k -> {ServicePoint(v) : v \in VisitDates}] :
        /\ cdo = <<Project("A", <<>>, pts)>>
        /\ ratio = 1
        /\ lb = 1

\* Project-map family: zero to MaxProjects small projects, with display
\* names that may collide or be absent, and collections that may be missing.
SmallData ==
    {[dus |-> <<>>, pts |-> <<>>, sas |-> <<>>, missing |-> {}],
     [dus |-> <<>>, pts |-> <<ServicePoint(Datetime(1, "am"))>>,
      sas |-> <<ServiceArea(TRUE, FALSE)>>, missing |-> {"delivery_units"}],
     [dus |-> <<DeliveryUnit("completed", Datetime(1, "pm"), 2, 1, "W1"),
                DeliveryUnit("unvisited", None, 0, 1, "W2")>>,
      pts |-> <<ServicePoint(Datetime(0, "pm")), ServicePoint(None)>>,
      sas |-> <<ServiceArea(TRUE, TRUE), ServiceArea(FALSE, FALSE)>>, missing |-> {}],
     [dus |-> <<DeliveryUnit("completed", NaT, 2, 1, "W1")>>, pts |-> <<>>,
      sas |-> <<ServiceArea(TRUE, FALSE)>>, missing |-> {}],
     [dus |-> <<DeliveryUnit("completed", Datetime(2, "am"), 0, 0, "W1")>>,
      pts |-> <<>>, sas |-> <<>>, missing |-> {}],
     [dus |-> <<DeliveryUnit("completed", Datetime(0, "am"), 2, 1, "W3")>>,
      pts |-> <<>>, sas |-> <<>>, missing |-> {}],
     [dus |-> <<DeliveryUnit("completed", Datetime(3, "am"), 1, 1, "W2"),
                DeliveryUnit("completed", None, 1, 1, "W2"),
                DeliveryUnit("completed", Datetime(3, "pm"), 1, 1, "W1")>>,
      pts |-> <<>>, sas |-> <<>>, missing |-> {}],
     [dus |-> <<DeliveryUnit("completed", Datetime(0, "am"), 2, 1, "W1"),
                DeliveryUnit("completed", Datetime(2, "am"), 3, 1, "W2")>>,
      pts |-> <<>>, sas |-> <<>>, missing |-> {}]}
\* Projects without field workers: an empty mapping, and no mapping at all.
NoWorkerProjects ==
    {CoverageData("A", <<DeliveryUnit("unvisited", None, 0, 1, "W1")>>, <<>>,
                  EmptyMap, <<>>, 0, {}),
     CoverageData("B", <<>>, <<>>, EmptyMap, <<>>, 0, {"flws"})}
SmallProjects ==
    {CoverageData(name, d.dus, d.pts, FLWS, d.sas, 1, d.missing) :
        name \in {"A", NoAttr}, d \in SmallData}
    \cup NoWorkerProjects
MapRun(cdo, ratio, lb) ==
    \E k \in 0..MaxProjects :
        /\ cdo \in [1..k -> SmallProjects]
        /\ ratio = 1
        /\ lb = 2

(***************************************************************************)
(* The state of one call of create_opportunity_comparison_report.          *)
(***************************************************************************)
VARIABLES
    coverage_data_objects,   \* the input map, in insertion order
    clumping_ratio,          \* tunable
    lookback_days,           \* tunable
    pc,                      \* position of the call
    comparison_stats,        \* result of _generate_comparison_statistics
    progress_data,           \* the dict _generate_progress_data builds
    project_idx,             \* position of the loop of line 149
    service_delivery_by_day, \* locals of _generate_progress_data
    du_idx,                  \* position of the loop of line 166
    du_completion_by_day,
    clumped_dus_by_day,
    first_completion_date,
    html_content,            \* result of _generate_html_report
    report_file,             \* the file opportunity_comparison_report.html
    result,                  \* the value returned to the caller
    error                    \* the exception that ended the call, if any

vars == <<coverage_data_objects, clumping_ratio, lookback_days, pc, comparison_stats,
          progress_data, project_idx, service_delivery_by_day, du_idx, du_completion_by_day,
          clumped_dus_by_day, first_completion_date, html_content, report_file,
          result, error>>

inputs == <<coverage_data_objects, clumping_ratio, lookback_days>>
locals == <<service_delivery_by_day, du_idx, du_completion_by_day, clumped_dus_by_day,
            first_completion_date>>

Unset == [unset |-> TRUE]
Unbound == [bound |-> FALSE, date |-> 0]
Bound(d) == [bound |-> TRUE, date |-> d]
NoFile == [exists |-> FALSE]
Pending == "<pending>"
Filename == "opportunity_comparison_report.html"

Init ==
    /\ \/ WindowRun(coverage_data_objects, clumping_ratio, lookback_days)
       \/ ExampleRun(coverage_data_objects, clumping_ratio, lookback_days)
       \/ ClumpRun(coverage_data_objects, clumping_ratio, lookback_days)
       \/ ServiceRun(coverage_data_objects, clumping_ratio, lookback_days)
       \/ MapRun(coverage_data_objects, clumping_ratio, lookback_days)
    /\ pc = "call"
    /\ comparison_stats = Unset
    /\ progress_data = Unset
    /\ project_idx = 0
    /\ service_delivery_by_day = EmptyMap
    /\ du_idx = 0
    /\ du_completion_by_day = EmptyMap
    /\ clumped_dus_by_day = EmptyMap
    /\ first_completion_date = Unbound
    /\ html_content = Unset
    /\ report_file = NoFile
    /\ result = Pending
    /\ error = NoError

(***************************************************************************)
(* The steps of create_opportunity_comparison_report.                      *)
(***************************************************************************)
\* An exception leaves the call: nothing after the raising statement runs,
\* and the frame of _generate_progress_data, its result included, is gone.
Raise(kind) ==
    /\ pc' = "raised"
    /\ error' = kind
    /\ progress_data' = Unset
    /\ service_delivery_by_day' = EmptyMap
    /\ du_completion_by_day' = EmptyMap
    /\ clumped_dus_by_day' = EmptyMap
    /\ first_completion_date' = Unbound
    /\ UNCHANGED <<inputs, comparison_stats, project_idx, du_idx, html_content,
                   report_file, result>>

\* Mutant: a map of one project is taken for an empty one.
NoProjectsOffByOne(cdo) == Len(cdo) < 2

\* Line 40: len(coverage_data_objects) < 1
NoProjects(cdo) == Len(cdo) < 1

\* Lines 40-42: the empty map.
ReturnNoData ==
    /\ pc = "call"
    /\ NoProjects(coverage_data_objects)
    /\ pc' = "returned"
    /\ result' = "None"
    /\ UNCHANGED <<inputs, comparison_stats, progress_data, project_idx, locals,
                   html_content, report_file, error>>

\* Line 47, and lines 141-147 on entering _generate_progress_data.
GenerateStatistics ==
    /\ pc = "call"
    /\ ~NoProjects(coverage_data_objects)
    /\ comparison_stats' = GenerateComparisonStatistics(coverage_data_objects)
    /\ progress_data' = [service_delivery_progress |-> EmptyMap,
                         du_completion_progress |-> EmptyMap,
                         cumulative_service_delivery |-> EmptyMap,
                         cumulative_du_completion |-> EmptyMap,
                         clumped_dus_progress |-> EmptyMap]
    /\ project_idx' = 1
    /\ pc' = "progress"
    /\ UNCHANGED <<inputs, locals, html_content, report_file, result, error>>

\* Lines 149-166: the next project: its visits are bucketed, the DU buckets
\* are emptied and the loop over delivery_units.values() begins.
StartProject ==
    /\ pc = "progress"
    /\ project_idx <= Len(coverage_data_objects)
    /\ LET coverage_data == coverage_data_objects[project_idx]
       IN  IF IsMissing(coverage_data, "service_points")
           THEN Raise("TypeError")
           ELSE IF IsMissing(coverage_data, "delivery_units")
           THEN Raise("AttributeError")
           ELSE /\ service_delivery_by_day' =
                       ServiceDeliveryByDay(coverage_data.service_points, 1, EmptyMap)
                /\ du_completion_by_day' = EmptyMap
                /\ clumped_dus_by_day' = EmptyMap
                /\ du_idx' = 1
                /\ pc' = "units"
                /\ UNCHANGED <<inputs, comparison_stats, progress_data, project_idx,
                               first_completion_date, html_content, report_file,
                               result, error>>

\* Lines 166-193: one delivery unit.
BucketNextUnit ==
    /\ pc = "units"
    /\ du_idx <= Len(coverage_data_objects[project_idx].delivery_units)
    /\ LET du == coverage_data_objects[project_idx].delivery_units[du_idx]
           buckets == BucketDeliveryUnit(du, du_idx, clumping_ratio,
                                         du_completion_by_day, clumped_dus_by_day)
       IN  IF buckets.error # NoError
           THEN Raise(buckets.error)
           ELSE /\ du_completion_by_day' = buckets.du_completion_by_day
                /\ clumped_dus_by_day' = buckets.clumped_dus_by_day
                /\ du_idx' = du_idx + 1
                /\ UNCHANGED <<inputs, pc, comparison_stats, progress_data, project_idx,
                               service_delivery_by_day, first_completion_date,
                               html_content, report_file, result, error>>

\* Lines 196-220: the service delivery series, if any visit was bucketed.
ServiceProgress(by_day) ==
    LET first_service_date == SetMin(DOMAIN by_day)
        last_service_date == SetMax(DOMAIN by_day)
    IN  DenseSeries(first_service_date, last_service_date, first_service_date,
                    by_day, 0, <<>>)

\* Lines 222-246: the DU completion series, if any completion was bucketed.
\* Mutant: first_completion_date is assigned once and then left over for
\* the projects that follow.
FirstCompletionDateLeftOver(by_day) ==
    IF first_completion_date.bound THEN first_completion_date.date
    ELSE SetMin(DOMAIN by_day)

\* Line 223
FirstCompletionDate(by_day) == SetMin(DOMAIN by_day)
DuProgress(by_day) ==
    LET first == FirstCompletionDate(by_day)
        last_completion_date == SetMax(DOMAIN by_day)
    IN  DenseSeries(first, last_completion_date, first, by_day, 0, <<>>)

\* Mutant: the clumped walk starts on the first clumped date.
ClumpedStartOnFirstClumped(first_completion) == SetMin(DOMAIN clumped_dus_by_day)

\* Lines 249-289: the clumped series starts on first_completion_date, the
\* local that the DU completion block has set.
ClumpedStart(first_completion) == first_completion.date

\* Mutant: the clumped series counts its days from the first clumped date.
ClumpedProgressFromFirstClumpedDate(by_day, first_completion, coverage_data) ==
    ClumpedSeries(SetMin(DOMAIN by_day), SetMax(DOMAIN by_day), SetMin(DOMAIN by_day),
                  by_day, coverage_data, lookback_days, 0, <<>>)

\* Lines 249-258: first_completion_date is read, bound or not.
ClumpedProgress(by_day, first_completion, coverage_data) ==
    LET last_clumped_date == SetMax(DOMAIN by_day)
    IN  IF ~first_completion.bound
        THEN [progress |-> <<>>, error |-> "UnboundLocalError"]
        ELSE ClumpedSeries(ClumpedStart(first_completion), last_clumped_date,
                           first_completion.date, by_day, coverage_data,
                           lookback_days, 0, <<>>)

\* Lines 195-289: the series of the project whose buckets are filled.
EmitSeries ==
    /\ pc = "units"
    /\ du_idx > Len(coverage_data_objects[project_idx].delivery_units)
    /\ LET coverage_data == coverage_data_objects[project_idx]
           opportunity_name == OpportunityName(coverage_data, ProjectKey(project_idx))
           has_service == DOMAIN service_delivery_by_day # {}
           has_du == DOMAIN du_completion_by_day # {}
           has_clumped == DOMAIN clumped_dus_by_day # {}
           first_completion == IF has_du
                               THEN Bound(FirstCompletionDate(du_completion_by_day))
                               ELSE first_completion_date
           clumped == IF has_clumped
                      THEN ClumpedProgress(clumped_dus_by_day, first_completion,
                                           coverage_data)
                      ELSE [progress |-> <<>>, error |-> NoError]
           with_service ==
               IF has_service
               THEN LET service_progress == ServiceProgress(service_delivery_by_day)
                    IN  [progress_data EXCEPT
                            !.service_delivery_progress =
                                Put(@, opportunity_name, service_progress),
                            !.cumulative_service_delivery =
                                Put(@, opportunity_name, service_progress)]
               ELSE progress_data
           with_du ==
               IF has_du
               THEN LET du_progress == DuProgress(du_completion_by_day)
                    IN  [with_service EXCEPT
                            !.du_completion_progress = Put(@, opportunity_name, du_progress),
                            !.cumulative_du_completion = Put(@, opportunity_name, du_progress)]
               ELSE with_service
           with_clumped ==
               IF has_clumped
               THEN [with_du EXCEPT
                        !.clumped_dus_progress = Put(@, opportunity_name, clumped.progress)]
               ELSE with_du
       IN  IF clumped.error # NoError
           THEN Raise(clumped.error)
           ELSE /\ progress_data' = with_clumped
                /\ first_completion_date' = first_completion
                /\ project_idx' = project_idx + 1
                /\ pc' = "progress"
                /\ UNCHANGED <<inputs, comparison_stats, service_delivery_by_day, du_idx,
                               du_completion_by_day, clumped_dus_by_day, html_content,
                               report_file, result, error>>

\* Line 291: the loop is over, _generate_progress_data returns.
ReturnProgressData ==
    /\ pc = "progress"
    /\ project_idx > Len(coverage_data_objects)
    /\ pc' = "render"
    /\ UNCHANGED <<inputs, comparison_stats, progress_data, project_idx, locals,
                   html_content, report_file, result, error>>

\* Lines 308-339: the table rows, the payload and the title of the report.
ReportTitle(cdo) ==
    IF Len(cdo) = 1 THEN "Opportunity Analysis Report" ELSE "Opportunity Comparison Report"

GenerateHtmlReport ==
    /\ pc = "render"
    /\ html_content' =
          [report_title |-> ReportTitle(coverage_data_objects),
           project_rows |-> [i \in 1..comparison_stats.project_count |->
                                comparison_stats.projects[ProjectKey(i)].opportunity_name],
           progress_data_json |-> progress_data]
    /\ pc' = "write"
    /\ UNCHANGED <<inputs, comparison_stats, progress_data, project_idx, locals,
                   report_file, result, error>>

\* Mutant: the write step also runs after a stage has raised.
WriteReportAfterFailure ==
    /\ pc \in {"write", "raised"}
    /\ report_file' = [exists |-> TRUE, name |-> Filename, content |-> html_content]
    /\ result' = Filename
    /\ pc' = "returned"
    /\ UNCHANGED <<inputs, comparison_stats, progress_data, project_idx, locals,
                   html_content, error>>

\* Lines 56-61: the report is written and its name returned.
WriteReport ==
    /\ pc = "write"
    /\ report_file' = [exists |-> TRUE, name |-> Filename, content |-> html_content]
    /\ result' = Filename
    /\ pc' = "returned"
    /\ UNCHANGED <<inputs, comparison_stats, progress_data, project_idx, locals,
                   html_content, error>>

Next ==
    \/ ReturnNoData
    \/ GenerateStatistics
    \/ StartProject
    \/ BucketNextUnit
    \/ EmitSeries
    \/ ReturnProgressData
    \/ GenerateHtmlReport
    \/ WriteReport

Spec == Init /\ [][Next]_vars

(***************************************************************************)
(* What the claims speak of, read off the input and not off the code.      *)
(***************************************************************************)
\* The project whose series the last EmitSeries step has put into
\* progress_data; the bucket locals still hold its buckets.
Emitted == pc \in {"progress", "render", "write", "returned"} /\ project_idx > 1
LastProject == coverage_data_objects[project_idx - 1]
LastName == OpportunityName(LastProject, ProjectKey(project_idx - 1))
\* The project whose delivery units are being bucketed, and those of its
\* units that the loop has passed.
Bucketing == pc = "units"
CurrentProject == coverage_data_objects[project_idx]

HasValidCompletion(du) ==
    du.status = "completed" /\ du.computed_du_completion_date.kind = "datetime"
CompletionDay(du) == du.computed_du_completion_date.date
QualifyingDUs(cd) ==
    {i \in DOMAIN cd.delivery_units : HasValidCompletion(cd.delivery_units[i])}
CompletionDays(cd) == {CompletionDay(cd.delivery_units[i]) : i \in QualifyingDUs(cd)}
CompletedOn(cd, d) == {i \in QualifyingDUs(cd) : CompletionDay(cd.delivery_units[i]) = d}

\* points / buildings > ratio, by whole quotient and remainder
ExceedsRatio(du, ratio) ==
    /\ du.buildings >= 1
    /\ \/ du.service_points \div du.buildings > ratio
       \/ /\ du.service_points \div du.buildings = ratio
          /\ du.service_points % du.buildings > 0
ClumpedDUs(cd) ==
    {i \in QualifyingDUs(cd) : ExceedsRatio(cd.delivery_units[i], clumping_ratio)}
ClumpedDays(cd) == {CompletionDay(cd.delivery_units[i]) : i \in ClumpedDUs(cd)}
ClumpedOn(cd, d) == {i \in ClumpedDUs(cd) : CompletionDay(cd.delivery_units[i]) = d}

DatedVisits(cd) ==
    {i \in DOMAIN cd.service_points : cd.service_points[i].visit_date.kind = "datetime"}
VisitDays(cd) == {cd.service_points[i].visit_date.date : i \in DatedVisits(cd)}
VisitsOn(cd, d) == {i \in DatedVisits(cd) : cd.service_points[i].visit_date.date = d}

Earliest(S) == CHOOSE x \in S : \A y \in S : x <= y
Latest(S) == CHOOSE x \in S : \A y \in S : x >= y
Range(seq) == {seq[i] : i \in DOMAIN seq}

ServiceSeries == progress_data.service_delivery_progress[LastName]
DuSeries == progress_data.du_completion_progress[LastName]
ClumpedProgressSeries == progress_data.clumped_dus_progress[LastName]
HasServiceSeries == Emitted /\ VisitDays(LastProject) # {}
HasDuSeries == Emitted /\ CompletionDays(LastProject) # {}
HasClumpedSeries == Emitted /\ ClumpedDays(LastProject) # {}

(***************************************************************************)
(* C1: a completed delivery unit with a valid completion timestamp and     *)
(* building count 0 never makes _generate_progress_data raise: the         *)
(* clumping ratio of such a unit is guarded, not a division by zero.       *)
(* The code divides unguarded (line 182), so this is violated.             *)
(***************************************************************************)
HasZeroBuildingUnit(cd) ==
    \E i \in QualifyingDUs(cd) : cd.delivery_units[i].buildings = 0

C1_ZeroBuildingsNeverRaise ==
    \A p \in DOMAIN coverage_data_objects :
        HasZeroBuildingUnit(coverage_data_objects[p])
            => ~(pc = "raised" /\ project_idx = p /\ error = "ZeroDivisionError")

(***************************************************************************)
(* C2 as stated: each of the three series of a project starts on the first *)
(* bucketed date of that same series: its first point has day offset 0,    *)
(* stands for the earliest date on which the series has an event, and so   *)
(* has daily_count >= 1 (clumped series: a non-empty clumped_dus on day 0).*)
(* Violated by the clumped series, which starts on the first DU completion *)
(* date whether or not a clumped unit was completed on it.                 *)
(***************************************************************************)
FirstPointIs(series, count) ==
    /\ Len(series) >= 1
    /\ series[1].day = 0
    /\ series[1].daily_count = count

C2_EverySeriesStartsOnItsOwnFirstDate ==
    /\ HasServiceSeries =>
          /\ LastName \in DOMAIN progress_data.service_delivery_progress
          /\ FirstPointIs(ServiceSeries,
                 Cardinality(VisitsOn(LastProject, Earliest(VisitDays(LastProject)))))
          /\ ServiceSeries[1].daily_count >= 1
    /\ HasDuSeries =>
          /\ LastName \in DOMAIN progress_data.du_completion_progress
          /\ FirstPointIs(DuSeries,
                 Cardinality(CompletedOn(LastProject, Earliest(CompletionDays(LastProject)))))
          /\ DuSeries[1].daily_count >= 1
    /\ HasClumpedSeries =>
          /\ LastName \in DOMAIN progress_data.clumped_dus_progress
          /\ FirstPointIs(ClumpedProgressSeries,
                 Cardinality(ClumpedOn(LastProject, Earliest(ClumpedDays(LastProject)))))
          /\ ClumpedProgressSeries[1].daily_count >= 1
          /\ ClumpedProgressSeries[1].clumped_dus # <<>>

(***************************************************************************)
(* C2 amended: the service delivery and the DU completion series start on  *)
(* their own first bucketed date (day 0, daily_count >= 1); the clumped    *)
(* series starts on the project's first DU completion date: its day 0      *)
(* lists the clumped units completed on that date, which may be none.      *)
(***************************************************************************)
C2_SeriesAnchors ==
    /\ HasServiceSeries =>
          /\ LastName \in DOMAIN progress_data.service_delivery_progress
          /\ FirstPointIs(ServiceSeries,
                 Cardinality(VisitsOn(LastProject, Earliest(VisitDays(LastProject)))))
          /\ ServiceSeries[1].daily_count >= 1
    /\ HasDuSeries =>
          /\ LastName \in DOMAIN progress_data.du_completion_progress
          /\ FirstPointIs(DuSeries,
                 Cardinality(CompletedOn(LastProject, Earliest(CompletionDays(LastProject)))))
          /\ DuSeries[1].daily_count >= 1
    /\ HasClumpedSeries =>
          /\ LastName \in DOMAIN progress_data.clumped_dus_progress
          /\ FirstPointIs(ClumpedProgressSeries,
                 Cardinality(ClumpedOn(LastProject, Earliest(CompletionDays(LastProject)))))
          /\ Range(ClumpedProgressSeries[1].clumped_dus)
                 = ClumpedOn(LastProject, Earliest(CompletionDays(LastProject)))

\* A project whose first completion is not clumped and whose clumped series
\* therefore opens with an empty day 0, next to a DU series that does not.
C2_Witness ==
    /\ HasClumpedSeries
    /\ HasDuSeries
    /\ Earliest(CompletionDays(LastProject)) < Earliest(ClumpedDays(LastProject))
    /\ ClumpedProgressSeries[1].day = 0
    /\ ClumpedProgressSeries[1].daily_count = 0
    /\ DuSeries[1].daily_count >= 1

(***************************************************************************)
(* C3: every emitted series is dense: one point per calendar day from its  *)
(* start date to the last bucketed date of that series, day offsets        *)
(* 0, 1, ..., n in order; a day without a bucketed event has daily_count 0 *)
(* (and an empty clumped_dus) and the cumulative_count of the day before;  *)
(* the last point has daily_count >= 1.                                    *)
(***************************************************************************)
AllDates == 0..(MaxDay + 1)

\* events[d] is the set of the events of the series on date d.
IsDense(series, start, last, events) ==
    /\ Len(series) = last - start + 1
    /\ \A k \in 1..Len(series) :
          /\ series[k].day = k - 1
          /\ series[k].daily_count = Cardinality(events[start + k - 1])
          /\ events[start + k - 1] = {} =>
                /\ series[k].daily_count = 0
                /\ series[k].cumulative_count =
                       IF k = 1 THEN 0 ELSE series[k - 1].cumulative_count
    /\ series[Len(series)].daily_count >= 1

C3_SeriesAreDense ==
    /\ HasServiceSeries =>
          IsDense(ServiceSeries, Earliest(VisitDays(LastProject)),
                  Latest(VisitDays(LastProject)),
                  [d \in AllDates |-> VisitsOn(LastProject, d)])
    /\ HasDuSeries =>
          IsDense(DuSeries, Earliest(CompletionDays(LastProject)),
                  Latest(CompletionDays(LastProject)),
                  [d \in AllDates |-> CompletedOn(LastProject, d)])
    /\ HasClumpedSeries =>
          /\ IsDense(ClumpedProgressSeries, Earliest(CompletionDays(LastProject)),
                     Latest(ClumpedDays(LastProject)),
                     [d \in AllDates |-> ClumpedOn(LastProject, d)])
          /\ \A k \in 1..Len(ClumpedProgressSeries) :
                Range(ClumpedProgressSeries[k].clumped_dus) =
                    ClumpedOn(LastProject, Earliest(CompletionDays(LastProject)) + k - 1)

\* All three series of one project have a day without an event in them.
HasGap(series) ==
    \E k \in 2..(Len(series) - 1) :
        /\ series[k].daily_count = 0
        /\ series[k].cumulative_count = series[k - 1].cumulative_count
        /\ series[k].cumulative_count >= 1
C3_Witness ==
    /\ HasDuSeries /\ HasGap(DuSeries)
    /\ HasClumpedSeries /\ HasGap(ClumpedProgressSeries)
    /\ \E k \in 2..(Len(ClumpedProgressSeries) - 1) :
          ClumpedProgressSeries[k].clumped_dus = <<>>

(***************************************************************************)
(* C4: in every emitted series cumulative_count never decreases from one   *)
(* day to the next, is at each day the sum of daily_count up to and        *)
(* including that day, and at the last day is the sum of all daily_count   *)
(* values, which is the number of bucketed events of the series.           *)
(***************************************************************************)
RECURSIVE SumDaily(_, _)
SumDaily(series, k) == IF k = 0 THEN 0 ELSE SumDaily(series, k - 1) + series[k].daily_count

IsCumulative(series, total) ==
    /\ \A k \in 1..Len(series) : series[k].cumulative_count = SumDaily(series, k)
    /\ \A k \in 2..Len(series) :
          series[k].cumulative_count >= series[k - 1].cumulative_count
    /\ series[Len(series)].cumulative_count = SumDaily(series, Len(series))
    /\ series[Len(series)].cumulative_count = total

C4_CumulativeCounts ==
    /\ HasServiceSeries =>
          IsCumulative(ServiceSeries, Cardinality(DatedVisits(LastProject)))
    /\ HasDuSeries =>
          IsCumulative(DuSeries, Cardinality(QualifyingDUs(LastProject)))
    /\ HasClumpedSeries =>
          IsCumulative(ClumpedProgressSeries, Cardinality(ClumpedDUs(LastProject)))

\* A project with three clumped completions over five days.
C4_Witness ==
    /\ HasDuSeries
    /\ HasClumpedSeries
    /\ Len(DuSeries) = 5
    /\ DuSeries[1].cumulative_count = 1
    /\ DuSeries[4].cumulative_count = 2
    /\ DuSeries[5].cumulative_count = 3
    /\ ClumpedProgressSeries[5].cumulative_count = 3

(***************************************************************************)
(* C5: a delivery unit that is 'completed' without a valid completion      *)
(* timestamp, or that is not 'completed', contributes to no series: the    *)
(* completion buckets count exactly the units with a valid timestamp, on   *)
(* their own dates and on no other day; no other unit is in a clumped      *)
(* list or adds a worker to a trailing window; and no exception of         *)
(* _generate_progress_data is due to such a unit.                          *)
(***************************************************************************)
InFocus == Bucketing \/ Emitted
FocusProject == IF Bucketing THEN CurrentProject ELSE LastProject
\* The units of the project in focus that the bucketing loop has passed.
Passed ==
    IF Bucketing THEN 1..(du_idx - 1) ELSE DOMAIN LastProject.delivery_units
PassedQualifying == QualifyingDUs(FocusProject) \cap Passed

IsSkipped(du) == ~HasValidCompletion(du)
WorkerIdsOf(cd, units) ==
    {cd.flws[cd.delivery_units[i].flw_commcare_id].id :
        i \in {j \in units : cd.delivery_units[j].flw_commcare_id \in DOMAIN cd.flws}}
\* The display name of project p: its opportunity_name, or its key in the
\* input map where the dataset has no such attribute.
NameOf(p) ==
    IF coverage_data_objects[p].opportunity_name = NoAttr
    THEN ProjectKeys[p]
    ELSE coverage_data_objects[p].opportunity_name

C5_SkippedUnitsContributeNothing ==
    /\ InFocus =>
          /\ DOMAIN du_completion_by_day =
                {CompletionDay(FocusProject.delivery_units[i]) : i \in PassedQualifying}
          /\ \A d \in DOMAIN du_completion_by_day :
                du_completion_by_day[d] =
                    Cardinality(CompletedOn(FocusProject, d) \cap Passed)
          /\ \A d \in DOMAIN clumped_dus_by_day :
                \A i \in Range(clumped_dus_by_day[d]) :
                    ~IsSkipped(FocusProject.delivery_units[i])
    /\ HasDuSeries =>
          SumDaily(DuSeries, Len(DuSeries)) = Cardinality(QualifyingDUs(LastProject))
    /\ HasClumpedSeries =>
          \A k \in 1..Len(ClumpedProgressSeries) :
              /\ \A i \in Range(ClumpedProgressSeries[k].clumped_dus) :
                    ~IsSkipped(LastProject.delivery_units[i])
              /\ ClumpedProgressSeries[k].unique_flws_in_lookback
                    \subseteq WorkerIdsOf(LastProject, QualifyingDUs(LastProject))
    /\ progress_data # Unset =>
          /\ \A n \in DOMAIN progress_data.du_completion_progress :
                \E p \in DOMAIN coverage_data_objects :
                    NameOf(p) = n /\ QualifyingDUs(coverage_data_objects[p]) # {}
          /\ \A n \in DOMAIN progress_data.clumped_dus_progress :
                \E p \in DOMAIN coverage_data_objects :
                    NameOf(p) = n /\ QualifyingDUs(coverage_data_objects[p]) # {}
    /\ pc = "raised" =>
          LET cd == coverage_data_objects[project_idx]
          IN  /\ error = "ZeroDivisionError" =>
                    \E i \in QualifyingDUs(cd) : cd.delivery_units[i].buildings = 0
              /\ error = "KeyError" =>
                    \E i \in QualifyingDUs(cd) :
                        cd.delivery_units[i].flw_commcare_id \notin DOMAIN cd.flws
              /\ error \in {"TypeError", "AttributeError"} => cd.missing # {}
              /\ error \in {"ZeroDivisionError", "KeyError", "TypeError", "AttributeError"}

\* A project with a completed unit whose timestamp is NaT, no building and
\* an unknown worker, next to one clumped unit: both series count one unit.
C5_Witness ==
    /\ HasDuSeries
    /\ HasClumpedSeries
    /\ \E i \in DOMAIN LastProject.delivery_units :
          /\ LastProject.delivery_units[i].status = "completed"
          /\ LastProject.delivery_units[i].computed_du_completion_date = NaT
          /\ LastProject.delivery_units[i].buildings = 0
    /\ DuSeries[Len(DuSeries)].cumulative_count = 1
    /\ ClumpedProgressSeries[1].unique_flws_in_lookback = {"flw-1"}

(***************************************************************************)
(* C6: for every day d of the clumped series and lookback_days >= 1,       *)
(* unique_flws_in_lookback holds exactly the identifiers of the field      *)
(* workers of the clumped units completed in [d - (lookback_days - 1), d], *)
(* and unique_flws_count_in_lookback is their number; a worker whose       *)
(* clumped completions are all older than the window is not counted.       *)
(***************************************************************************)
ClumpedInWindow(cd, d, lookback) ==
    {i \in ClumpedDUs(cd) :
        /\ CompletionDay(cd.delivery_units[i]) >= d - (lookback - 1)
        /\ CompletionDay(cd.delivery_units[i]) <= d}

C6_UniqueWorkersInWindow ==
    (HasClumpedSeries /\ lookback_days >= 1) =>
        \A k \in 1..Len(ClumpedProgressSeries) :
            LET d == Earliest(CompletionDays(LastProject)) + k - 1
                workers == WorkerIdsOf(LastProject,
                                       ClumpedInWindow(LastProject, d, lookback_days))
            IN  /\ \A i \in ClumpedInWindow(LastProject, d, lookback_days) :
                      LastProject.delivery_units[i].flw_commcare_id
                          \in DOMAIN LastProject.flws
                /\ ClumpedProgressSeries[k].unique_flws_in_lookback = workers
                /\ ClumpedProgressSeries[k].unique_flws_count_in_lookback
                      = Cardinality(workers)

\* lookback_days = 3, clumped completions of W1 on day 0 and of W2 on days 2
\* and 4: two workers on day 2, W1 no longer counted on day 4.
C6_Witness ==
    /\ HasClumpedSeries
    /\ lookback_days = 3
    /\ Len(ClumpedProgressSeries) = 5
    /\ ClumpedProgressSeries[1].unique_flws_in_lookback = {"flw-1"}
    /\ ClumpedProgressSeries[3].unique_flws_count_in_lookback = 2
    /\ ClumpedProgressSeries[3].unique_flws_in_lookback = {"flw-1", "flw-2"}
    /\ ClumpedProgressSeries[5].unique_flws_count_in_lookback = 1
    /\ ClumpedProgressSeries[5].unique_flws_in_lookback = {"flw-2"}

(***************************************************************************)
(* C7: a qualifying completed unit with building count >= 1 is recorded as *)
(* clumped, on its completion date and on no other, if and only if its     *)
(* service points divided by its building count are strictly more than     *)
(* clumping_ratio; a unit whose ratio equals clumping_ratio is not clumped.*)
(***************************************************************************)
RecordedClumpedOn(i, d) == i \in Range(Get(clumped_dus_by_day, d, <<>>))

C7_ClumpedIffStrictlyAboveRatio ==
    /\ InFocus =>
          \A i \in PassedQualifying :
              LET du == FocusProject.delivery_units[i]
              IN  du.buildings >= 1 =>
                     /\ RecordedClumpedOn(i, CompletionDay(du))
                            <=> ExceedsRatio(du, clumping_ratio)
                     /\ \A d \in DOMAIN clumped_dus_by_day :
                            RecordedClumpedOn(i, d) => d = CompletionDay(du)
                     /\ du.service_points = clumping_ratio * du.buildings
                            => ~RecordedClumpedOn(i, CompletionDay(du))
    /\ HasClumpedSeries =>
          \A i \in QualifyingDUs(LastProject) :
              LET du == LastProject.delivery_units[i]
              IN  \A k \in 1..Len(ClumpedProgressSeries) :
                      i \in Range(ClumpedProgressSeries[k].clumped_dus) <=>
                          /\ ExceedsRatio(du, clumping_ratio)
                          /\ CompletionDay(du) = Earliest(CompletionDays(LastProject)) + k - 1

\* clumping_ratio = 10: the unit with 11 points on 1 building is clumped,
\* the unit with 10 points on 1 building is not.
C7_Witness ==
    /\ Emitted
    /\ clumping_ratio = 10
    /\ \E i, j \in QualifyingDUs(LastProject) :
          LET a == LastProject.delivery_units[i]
              b == LastProject.delivery_units[j]
          IN  /\ a.service_points = 11 /\ a.buildings = 1
              /\ RecordedClumpedOn(i, CompletionDay(a))
              /\ b.service_points = 10 /\ b.buildings = 1
              /\ ~RecordedClumpedOn(j, CompletionDay(b))

(***************************************************************************)
(* C8: a failed run produces no report: the report file is written only    *)
(* after the summary aggregator, the progress series builder and the       *)
(* renderer have all completed; once a stage has raised, the file does not *)
(* exist and nothing is returned.                                          *)
(***************************************************************************)
C8_NoReportAfterFailure ==
    /\ report_file.exists =>
          /\ pc = "returned"
          /\ error = NoError
          /\ comparison_stats # Unset
          /\ progress_data # Unset
          /\ project_idx > Len(coverage_data_objects)
          /\ html_content # Unset
          /\ report_file.content = html_content
          /\ html_content.progress_data_json = progress_data
    /\ (pc = "raised" \/ error # NoError) =>
          /\ ~report_file.exists
          /\ result = Pending
          /\ html_content = Unset

\* The aggregator has run, the series builder has raised on a clumped unit
\* whose worker the Field Worker mapping does not hold: no file.
C8_Witness ==
    /\ pc = "raised"
    /\ error = "KeyError"
    /\ comparison_stats # Unset
    /\ ~report_file.exists

(***************************************************************************)
(* C9: for the empty input map the call raises nothing, runs none of the   *)
(* three stages, writes no file and returns None; for a non-empty map on   *)
(* which all stages succeed it returns the report filename, never None.    *)
(***************************************************************************)
C9_EmptyMapGivesNone ==
    /\ Len(coverage_data_objects) = 0 =>
          /\ pc \in {"call", "returned"}
          /\ error = NoError
          /\ comparison_stats = Unset
          /\ progress_data = Unset
          /\ html_content = Unset
          /\ ~report_file.exists
          /\ pc = "returned" => result = "None"
    /\ Len(coverage_data_objects) >= 1 =>
          /\ result # "None"
          /\ pc = "returned" =>
                /\ result = Filename
                /\ report_file.exists
                /\ error = NoError

C9_Witness ==
    /\ Len(coverage_data_objects) = 0
    /\ pc = "returned"
    /\ result = "None"
    /\ ~report_file.exists

(***************************************************************************)
(* C10: for every non-empty input map each cross-project summary count     *)
(* (delivery units, service points, completed DUs, service areas, started  *)
(* SAs, completed SAs, field workers) is the sum over all projects of the  *)
(* per-project count, and project_count is the number of entries of        *)
(* stats['projects'].                                                      *)
(***************************************************************************)
RECURSIVE TotalOf(_, _, _)
TotalOf(projects, keys, field) ==
    IF keys = {} THEN 0
    ELSE LET k == CHOOSE x \in keys : TRUE
         IN  projects[k][field] + TotalOf(projects, keys \ {k}, field)

C10_SummaryCountsAreSums ==
    comparison_stats # Unset =>
        LET projects == comparison_stats.projects
            summary == comparison_stats.summary_comparisons
            Total(field) == TotalOf(projects, DOMAIN projects, field)
        IN  /\ Len(coverage_data_objects) >= 1
            /\ summary.total_delivery_units = Total("delivery_units_count")
            /\ summary.total_service_points = Total("service_points_count")
            /\ summary.total_completed_dus = Total("completed_dus_count")
            /\ summary.total_service_areas = Total("total_service_areas")
            /\ summary.total_started_sas = Total("started_sas_count")
            /\ summary.total_completed_sas = Total("completed_sas_count")
            /\ summary.total_flws = Total("total_flws")
            /\ comparison_stats.project_count = Cardinality(DOMAIN projects)
            /\ comparison_stats.project_count = Len(coverage_data_objects)

\* Two projects that both have delivery units, service points and service
\* areas: every total takes something from each.
C10_Witness ==
    /\ comparison_stats # Unset
    /\ comparison_stats.project_count = 2
    /\ \A k \in DOMAIN comparison_stats.projects :
          /\ comparison_stats.projects[k].delivery_units_count = 2
          /\ comparison_stats.projects[k].completed_dus_count = 1
          /\ comparison_stats.projects[k].total_service_areas = 2
    /\ comparison_stats.summary_comparisons.total_delivery_units = 4
    /\ comparison_stats.summary_comparisons.total_completed_dus = 2
    /\ comparison_stats.summary_comparisons.total_service_areas = 4
    /\ comparison_stats.summary_comparisons.total_started_sas = 2

(***************************************************************************)
(* C11: average_coverage is the unweighted arithmetic mean of the          *)
(* per-project coverage percentages: their sum divided by the number of    *)
(* projects, not total completed DUs over total DUs, and 0 when there is   *)
(* no project; so it lies between the smallest and the largest per-project *)
(* coverage percentage.  Percentages are exact fractions here.             *)
(***************************************************************************)
FracEq(a, b) == a.num * b.den = b.num * a.den
FracLe(a, b) == a.num * b.den <= b.num * a.den

\* The delivery units of a dataset and its coverage, read off the input.
InputUnits(cd) ==
    IF "delivery_units" \in cd.missing THEN {} ELSE DOMAIN cd.delivery_units
InputCompleted(cd) == {i \in InputUnits(cd) : cd.delivery_units[i].status = "completed"}
InputCoverage(cd) ==
    IF InputUnits(cd) = {} THEN Frac(0, 1)
    ELSE Frac(100 * Cardinality(InputCompleted(cd)), Cardinality(InputUnits(cd)))

RECURSIVE FracTotal(_, _)
FracTotal(f, S) ==
    IF S = {} THEN Frac(0, 1)
    ELSE LET x == CHOOSE y \in S : TRUE
         IN  FracAdd(f[x], FracTotal(f, S \ {x}))

InputCoverages == [p \in DOMAIN coverage_data_objects |->
                      InputCoverage(coverage_data_objects[p])]
AverageCoverage == comparison_stats.summary_comparisons.average_coverage
WeightedCoverage ==
    Frac(100 * comparison_stats.summary_comparisons.total_completed_dus,
         comparison_stats.summary_comparisons.total_delivery_units)

InputWorkers(cd) == IF "flws" \in cd.missing THEN {} ELSE DOMAIN cd.flws
AggregatorHasRun == pc # "call" /\ Len(coverage_data_objects) >= 1

C12_RatiosGuardZeroDenominators ==
    /\ AggregatorHasRun => comparison_stats # Unset
    /\ comparison_stats # Unset =>
          \A p \in DOMAIN coverage_data_objects :
              LET cd == coverage_data_objects[p]
                  stats == comparison_stats.projects[ProjectKey(p)]
                  units == Cardinality(InputUnits(cd))
                  workers == Cardinality(InputWorkers(cd))
              IN  /\ "coverage_percentage" \in DOMAIN stats
                  /\ "pct_active_flw_last7days" \in DOMAIN stats
                  /\ stats.coverage_percentage.den >= 1
                  /\ stats.pct_active_flw_last7days.den >= 1
                  /\ units = 0 => FracEq(stats.coverage_percentage, Frac(0, 1))
                  /\ units >= 1 =>
                        FracEq(stats.coverage_percentage,
                               Frac(100 * Cardinality(InputCompleted(cd)), units))
                  /\ workers = 0 => FracEq(stats.pct_active_flw_last7days, Frac(0, 1))
                  /\ workers >= 1 =>
                        FracEq(stats.pct_active_flw_last7days,
                               Frac(100 * cd.active_flws_last7days, workers))
                  /\ FracLe(Frac(0, 1), stats.coverage_percentage)
                  /\ FracLe(stats.coverage_percentage, Frac(100, 1))

\* One project whose delivery units are missing and one whose collection is
\* empty and which has no field worker mapping, next to no ratio above 0.
C12_Witness ==
    /\ comparison_stats # Unset
    /\ Len(coverage_data_objects) = 2
    /\ "delivery_units" \in coverage_data_objects[1].missing
    /\ comparison_stats.projects[ProjectKey(1)].coverage_percentage = Frac(0, 1)
    /\ comparison_stats.projects[ProjectKey(1)].pct_active_flw_last7days = Frac(100, 2)
    /\ coverage_data_objects[2].delivery_units = <<>>
    /\ "flws" \in coverage_data_objects[2].missing
    /\ comparison_stats.projects[ProjectKey(2)].coverage_percentage = Frac(0, 1)
    /\ comparison_stats.projects[ProjectKey(2)].pct_active_flw_last7days = Frac(0, 1)

(***************************************************************************)
(* The series one project gives rise to, as a function of its own dataset  *)
(* and the two tunables alone: its buckets, filled from empty ones, and    *)
(* the three walks over them.  A series is a sequence of no or one item:   *)
(* <<>> where the project has no event of that kind.                       *)
(***************************************************************************)
RECURSIVE OwnBuckets(_, _, _, _)
OwnBuckets(cd, i, completion_by_day, clumped_by_day) ==
    IF i > Len(cd.delivery_units)
    THEN [du_completion_by_day |-> completion_by_day, clumped_dus_by_day |-> clumped_by_day]
    ELSE LET b == BucketDeliveryUnit(cd.delivery_units[i], i, clumping_ratio,
                                     completion_by_day, clumped_by_day)
         IN  OwnBuckets(cd, i + 1, b.du_completion_by_day, b.clumped_dus_by_day)

OwnSeries(cd) ==
    LET visits == ServiceDeliveryByDay(cd.service_points, 1, EmptyMap)
        buckets == OwnBuckets(cd, 1, EmptyMap, EmptyMap)
        completions == buckets.du_completion_by_day
        clumped == buckets.clumped_dus_by_day
    IN  [service_delivery_progress |->
             IF DOMAIN visits = {} THEN <<>>
             ELSE <<DenseSeries(Earliest(DOMAIN visits), Latest(DOMAIN visits),
                                Earliest(DOMAIN visits), visits, 0, <<>>)>>,
         du_completion_progress |->
             IF DOMAIN completions = {} THEN <<>>
             ELSE <<DenseSeries(Earliest(DOMAIN completions), Latest(DOMAIN completions),
                                Earliest(DOMAIN completions), completions, 0, <<>>)>>,
         clumped_dus_progress |->
             IF DOMAIN clumped = {} THEN <<>>
             ELSE <<ClumpedSeries(Earliest(DOMAIN completions), Latest(DOMAIN clumped),
                                  Earliest(DOMAIN completions), clumped, cd,
                                  lookback_days, 0, <<>>).progress>>]

SeriesKinds == {"service_delivery_progress", "du_completion_progress", "clumped_dus_progress"}
Entry(map, n) == IF n \in DOMAIN map THEN <<map[n]>> ELSE <<>>
\* The projects whose series have been emitted, and their display names.
Processed == IF progress_data = Unset THEN {} ELSE 1..(project_idx - 1)
ProcessedNames == {NameOf(p) : p \in Processed}
Named(n) == {p \in Processed : NameOf(p) = n}
\* own[p] is the series of project p on its own, for the projects 1..k.
RECURSIVE OwnSeriesUpTo(_)
OwnSeriesUpTo(k) ==
    IF k = 0 THEN <<>>
    ELSE Append(OwnSeriesUpTo(k - 1), OwnSeries(coverage_data_objects[k]))
Emitting(own, n, kind) == {p \in Named(n) : own[p][kind] # <<>>}

KeyedByDisplayName ==
    /\ \A kind \in SeriesKinds :
          /\ DOMAIN progress_data[kind] \subseteq ProcessedNames
          /\ Cardinality(DOMAIN progress_data[kind]) <= Cardinality(ProcessedNames)
    /\ progress_data.cumulative_service_delivery = progress_data.service_delivery_progress
    /\ progress_data.cumulative_du_completion = progress_data.du_completion_progress
    /\ DOMAIN comparison_stats.projects =
           {ProjectKey(p) : p \in DOMAIN coverage_data_objects}
    /\ Cardinality(DOMAIN comparison_stats.projects) = Len(coverage_data_objects)

(***************************************************************************)
(* C13 as stated: the series maps are keyed by display name; of the        *)
(* projects that share a display name the one processed last overwrites    *)
(* the entries of the earlier ones, so that under the name each series map *)
(* holds the series of the last such project and nothing of an earlier     *)
(* one; the summary statistics hold one entry per project key.  Violated:  *)
(* a series map that the last project does not write keeps the entry of an *)
(* earlier project.                                                        *)
(***************************************************************************)
C13_LaterProjectOverwritesEarlier ==
    progress_data # Unset =>
        /\ KeyedByDisplayName
        /\ LET own == OwnSeriesUpTo(project_idx - 1)
           IN  \A n \in ProcessedNames : \A kind \in SeriesKinds :
                   Entry(progress_data[kind], n) = own[Latest(Named(n))][kind]

(***************************************************************************)
(* C13 amended: the series maps are keyed by display name and hold at most *)
(* one entry per display name; of the projects that share a display name,  *)
(* a later one overwrites the entry of an earlier one in each series map   *)
(* for which it has a bucketed event itself, and leaves the earlier entry  *)
(* in place in the others: under a name each series map holds the series   *)
(* of the last project of that name that has such a series.  The summary   *)
(* statistics, keyed by project key, hold one entry per project.           *)
(***************************************************************************)
C13_LaterProjectOverwritesWhatItEmits ==
    progress_data # Unset =>
        /\ KeyedByDisplayName
        /\ LET own == OwnSeriesUpTo(project_idx - 1)
           IN  \A n \in ProcessedNames : \A kind \in SeriesKinds :
                   IF Emitting(own, n, kind) = {}
                   THEN n \notin DOMAIN progress_data[kind]
                   ELSE Entry(progress_data[kind], n)
                           = own[Latest(Emitting(own, n, kind))][kind]

\* Two projects named "A": the second has a DU completion series only.  Its
\* DU series has replaced the first project's, whose service delivery and
\* clumped series are still there; the summary has both projects.
C13_Witness ==
    /\ progress_data # Unset
    /\ Processed = {1, 2}
    /\ NameOf(1) = "A" /\ NameOf(2) = "A"
    /\ OwnSeries(coverage_data_objects[1]).du_completion_progress
           # OwnSeries(coverage_data_objects[2]).du_completion_progress
    /\ OwnSeries(coverage_data_objects[2]).du_completion_progress # <<>>
    /\ Entry(progress_data.du_completion_progress, "A")
           = OwnSeries(coverage_data_objects[2]).du_completion_progress
    /\ OwnSeries(coverage_data_objects[2]).service_delivery_progress = <<>>
    /\ OwnSeries(coverage_data_objects[2]).clumped_dus_progress = <<>>
    /\ OwnSeries(coverage_data_objects[1]).service_delivery_progress # <<>>
    /\ OwnSeries(coverage_data_objects[1]).clumped_dus_progress # <<>>
    /\ Entry(progress_data.service_delivery_progress, "A")
           = OwnSeries(coverage_data_objects[1]).service_delivery_progress
    /\ Entry(progress_data.clumped_dus_progress, "A")
           = OwnSeries(coverage_data_objects[1]).clumped_dus_progress
    /\ DOMAIN comparison_stats.projects = {"p1", "p2"}

(***************************************************************************)
(* C14: project computations are independent.  In an input map whose       *)
(* projects have pairwise distinct display names, what the series maps     *)
(* hold for a project whose series have been emitted is what that          *)
(* project's own dataset and the two tunables give rise to, whatever other *)
(* projects come before or after it in the map.  The clumped series is not *)
(* anchored on a first completion date left over from a project processed  *)
(* before: the dates of the clumped buckets are dates of the completion    *)
(* buckets of the same iteration, so a clumped series has its own          *)
(* project's first completion date to start on.                            *)
(***************************************************************************)
DistinctDisplayNames ==
    \A p, q \in DOMAIN coverage_data_objects : NameOf(p) = NameOf(q) => p = q

C14_ProjectsAreIndependent ==
    /\ InFocus =>
          /\ DOMAIN clumped_dus_by_day \subseteq DOMAIN du_completion_by_day
          /\ DOMAIN clumped_dus_by_day # {} => DOMAIN du_completion_by_day # {}
    /\ (Emitted /\ DOMAIN clumped_dus_by_day # {}) =>
          /\ first_completion_date = Bound(Earliest(CompletionDays(LastProject)))
          /\ ClumpedProgressSeries[Len(ClumpedProgressSeries)].day
                = Latest(ClumpedDays(LastProject)) - Earliest(CompletionDays(LastProject))
    /\ (progress_data # Unset /\ DistinctDisplayNames) =>
          LET own == OwnSeriesUpTo(project_idx - 1)
          IN  \A p \in Processed : \A kind \in SeriesKinds :
                  Entry(progress_data[kind], NameOf(p)) = own[p][kind]

\* Two projects with different display names.  The first was completed on
\* one day and has no clumped unit; the second was first completed two days
\* earlier: its series count from its own first day, and the series of the
\* first project are as they were.
C14_Witness ==
    /\ progress_data # Unset
    /\ DistinctDisplayNames
    /\ Processed = {1, 2}
    /\ CompletionDays(coverage_data_objects[1]) = {3}
    /\ ClumpedDays(coverage_data_objects[1]) = {}
    /\ CompletionDays(coverage_data_objects[2]) = {1}
    /\ ClumpedDays(coverage_data_objects[2]) = {1}
    /\ first_completion_date = Bound(1)
    /\ Len(progress_data.du_completion_progress[NameOf(1)]) = 1
    /\ progress_data.du_completion_progress[NameOf(1)][1].daily_count = 2
    /\ Len(progress_data.du_completion_progress[NameOf(2)]) = 1
    /\ progress_data.clumped_dus_progress[NameOf(2)][1].day = 0
    /\ progress_data.clumped_dus_progress[NameOf(2)][1].daily_count = 1
    /\ NameOf(1) \notin DOMAIN progress_data.clumped_dus_progress

(***************************************************************************)
(* C15: the two stages count completions differently.  For every project   *)
(* whose display name is unique in the input map, the last                 *)
(* cumulative_count of its DU completion series (0 where it has no such    *)
(* series) is at most the completed_dus_count of the summary aggregator,   *)
(* and equal to it exactly when every delivery unit with status            *)
(* 'completed' has a valid completion timestamp; a completed unit without  *)
(* one counts toward completed_dus_count and coverage_percentage and is in *)
(* no series.                                                              *)
(***************************************************************************)
UniqueName(p) == \A q \in DOMAIN coverage_data_objects : NameOf(q) = NameOf(p) => q = p
FinalCumulative(map, n) ==
    IF n \in DOMAIN map THEN map[n][Len(map[n])].cumulative_count ELSE 0
Undated(cd) == InputCompleted(cd) \ QualifyingDUs(cd)

C15_SeriesCountAtMostCompletedCount ==
    progress_data # Unset =>
        \A p \in Processed :
            UniqueName(p) =>
                LET cd == coverage_data_objects[p]
                    stats == comparison_stats.projects[ProjectKey(p)]
                    final == FinalCumulative(progress_data.du_completion_progress, NameOf(p))
                IN  /\ final <= stats.completed_dus_count
                    /\ final = stats.completed_dus_count <=> Undated(cd) = {}
                    /\ stats.completed_dus_count = Cardinality(InputCompleted(cd))
                    /\ stats.completed_dus_count = final + Cardinality(Undated(cd))
                    /\ FracEq(stats.coverage_percentage, InputCoverage(cd))
                    /\ final = Cardinality(QualifyingDUs(cd))

\* A project of three completed units, one of them without a timestamp: the
\* series ends at 2, the summary says 3 completed and 100% coverage.  Next
\* to it a project whose completed unit is dated: 1 and 1.
C15_Witness ==
    /\ progress_data # Unset
    /\ Processed = {1, 2}
    /\ UniqueName(1) /\ UniqueName(2)
    /\ Cardinality(Undated(coverage_data_objects[1])) = 1
    /\ FinalCumulative(progress_data.du_completion_progress, NameOf(1)) = 2
    /\ comparison_stats.projects[ProjectKey(1)].completed_dus_count = 3
    /\ comparison_stats.projects[ProjectKey(1)].coverage_percentage = Frac(300, 3)
    /\ Undated(coverage_data_objects[2]) = {}
    /\ FinalCumulative(progress_data.du_completion_progress, NameOf(2)) = 1
    /\ comparison_stats.projects[ProjectKey(2)].completed_dus_count = 1

(***************************************************************************)
(* C16 as stated: whenever the output has a clumped series for a project   *)
(* it has a DU completion series for it too, and the two are aligned by    *)
(* day offset: the clumped series is no longer than the DU completion      *)
(* series, and at every day offset of the clumped series its daily_count   *)
(* and cumulative_count are at most those of the DU completion series.     *)
(* Violated under a shared display name, where the two entries can stem    *)
(* from different projects.                                                *)
(***************************************************************************)
Aligned(clumped, du) ==
    /\ Len(clumped) <= Len(du)
    /\ \A k \in 1..Len(clumped) :
          /\ k <= Len(du)
          /\ clumped[k].day = du[k].day
          /\ clumped[k].daily_count <= du[k].daily_count
          /\ clumped[k].cumulative_count <= du[k].cumulative_count

C16_ClumpedSeriesAlignedWithDuSeries ==
    progress_data # Unset =>
        \A p \in Processed :
            NameOf(p) \in DOMAIN progress_data.clumped_dus_progress =>
                /\ NameOf(p) \in DOMAIN progress_data.du_completion_progress
                /\ Aligned(progress_data.clumped_dus_progress[NameOf(p)],
                           progress_data.du_completion_progress[NameOf(p)])

(***************************************************************************)
(* C16 amended: whenever the iteration of a project emits a clumped series *)
(* it emits a DU completion series too, and these two are aligned by day   *)
(* offset: both count their days from the project's first completion date, *)
(* so the same offset is the same calendar date; the clumped series is no  *)
(* longer than the DU completion series; at every day offset of the        *)
(* clumped series its daily_count and cumulative_count are at most those   *)
(* of the DU completion series.  In the output this holds for the entries  *)
(* of every project whose display name is unique in the input map.         *)
(***************************************************************************)
\* Both series of project cd give, at each offset, the events of the same date.
SameCalendar(clumped, du, cd) ==
    LET first == Earliest(CompletionDays(cd))
    IN  \A k \in 1..Len(clumped) :
            /\ clumped[k].daily_count = Cardinality(ClumpedOn(cd, first + clumped[k].day))
            /\ du[k].daily_count = Cardinality(CompletedOn(cd, first + du[k].day))

C16_AlignedWithinOneProject ==
    /\ (Emitted /\ DOMAIN clumped_dus_by_day # {}) =>
          /\ DOMAIN du_completion_by_day # {}
          /\ LastName \in DOMAIN progress_data.clumped_dus_progress
          /\ LastName \in DOMAIN progress_data.du_completion_progress
          /\ Aligned(ClumpedProgressSeries, DuSeries)
          /\ SameCalendar(ClumpedProgressSeries, DuSeries, LastProject)
    /\ progress_data # Unset =>
          \A p \in Processed :
              (UniqueName(p) /\ ClumpedDays(coverage_data_objects[p]) # {}) =>
                  /\ NameOf(p) \in DOMAIN progress_data.clumped_dus_progress
                  /\ NameOf(p) \in DOMAIN progress_data.du_completion_progress
                  /\ Aligned(progress_data.clumped_dus_progress[NameOf(p)],
                             progress_data.du_completion_progress[NameOf(p)])
                  /\ SameCalendar(progress_data.clumped_dus_progress[NameOf(p)],
                                  progress_data.du_completion_progress[NameOf(p)],
                                  coverage_data_objects[p])

\* A project completed on days 0 and 1, its one clumped unit on day 1: the
\* clumped series is [0, 1] next to the DU completion series [1, 1].
C16_Witness ==
    /\ HasClumpedSeries
    /\ UniqueName(project_idx - 1)
    /\ CompletionDays(LastProject) = {0, 1}
    /\ ClumpedDays(LastProject) = {1}
    /\ Len(ClumpedProgressSeries) = 2 /\ Len(DuSeries) = 2
    /\ ClumpedProgressSeries[1].daily_count = 0 /\ DuSeries[1].daily_count = 1
    /\ ClumpedProgressSeries[2].day = 1 /\ DuSeries[2].day = 1
    /\ ClumpedProgressSeries[2].cumulative_count = 1 /\ DuSeries[2].cumulative_count = 2

====
